---- MODULE Spec2Model ----
(***************************************************************************)
(* BreitWignerGenerator (src/modules/BreitWignerGenerator.cc): a module    *)
(* that maps a phase-space point x to s = m*G*tan(y) + m^2 and reports the *)
(* jacobian ds/dx.  The members mass and width are declared `const float`, *)
(* every other quantity is a double.                                       *)
(*                                                                         *)
(* Numbers are binary floating-point values  sign * mant * 2^exp  with an  *)
(* exact natural mantissa, kept as a little-endian sequence of 15-bit      *)
(* limbs (a machine integer of the checker holds a product of two limbs).  *)
(* Every C++ operation is the exact operation followed by IEEE-754         *)
(* round-to-nearest-even to the format of its C++ type: binary32 for float *)
(* (24 bits), binary64 for double (53 bits), with overflow to infinity,    *)
(* subnormals and signed zeros.  The library functions std::atan, std::tan *)
(* and std::cos are not part of the sources; their accuracy is that of a   *)
(* libm (glibc): a call returns one of the floating-point values next to   *)
(* the mathematical value, except that std::tan and std::cos of a large    *)
(* argument return a value next to the function of an argument whose       *)
(* reduction by the multiple of pi/2 is off by a small absolute error.  A  *)
(* call returns the same value for the same argument.                      *)
(***************************************************************************)
EXTENDS Integers, Sequences, FiniteSets, TLC

(***************************************************************************)
(* Natural numbers of any size: <<l1, l2, ...>> is l1 + l2*Base + ...,     *)
(* without high zero limbs; <<>> is 0.                                     *)
(***************************************************************************)
Base == 2^15

Max(x, y) == IF x > y THEN x ELSE y

Low(a) == IF a = <<>> THEN 0 ELSE a[1]

\* limb i of a, 0 outside a
Limb(a, i) == IF 1 <= i /\ i <= Len(a) THEN a[i] ELSE 0

\* a is a natural number (the test has a computed where it stands)
IsNat(a) == Len(a) >= 0

\* the highest position of g[1..n] that is not 0, 0 when there is none
Top(g, n) == CHOOSE i \in 0..n : (i = 0 \/ g[i] # 0) /\ \A j \in (i + 1)..n : g[j] = 0

Trim(g) == SubSeq(g, 1, Top(g, Len(g)))

\* the limbs f[1..n] without the high zero limbs
BNorm(f, n) == Trim(SubSeq(f, 1, n))

\* a carry enters position i of the digit sums c (each at most 2*Base - 2):
\* the nearest lower position that is not Base - 1 overflows
CarryIn(c, i) ==
    /\ i > 1
    /\ \/ c[i - 1] >= Base
       \/ /\ c[i - 1] = Base - 1
          /\ \E d \in 2..(i - 1) :
                /\ c[i - d] >= Base
                /\ \A h \in 1..(d - 1) : c[i - h] = Base - 1

\* the number whose digit sums are c (no carry leaves the last position)
Carry(c) ==
    BNorm([i \in 1..Len(c) |-> (c[i] + IF CarryIn(c, i) THEN 1 ELSE 0) % Base], Len(c))

\* the sums of the limbs of a and b at the positions 1..n
Sums(a, b, n) == SubSeq([i \in 1..n |-> Limb(a, i) + Limb(b, i)], 1, n)

BAdd(a, b) == Carry(Sums(a, b, Max(Len(a), Len(b)) + 1))

\* a borrow enters position i of the digit differences d
BorrowIn(d, i) ==
    /\ i > 1
    /\ \/ d[i - 1] < 0
       \/ /\ d[i - 1] = 0
          /\ \E k \in 2..(i - 1) :
                /\ d[i - k] < 0
                /\ \A h \in 1..(k - 1) : d[i - h] = 0

\* the number whose digit differences are d
Borrow(d) ==
    BNorm([i \in 1..Len(d) |->
            (d[i] - (IF BorrowIn(d, i) THEN 1 ELSE 0) + Base) % Base], Len(d))

Diffs(a, b) == SubSeq([i \in 1..Len(a) |-> a[i] - Limb(b, i)], 1, Len(a))

\* a - b for a >= b
BSub(a, b) == Borrow(Diffs(a, b))

\* the highest position where a and b of equal length differ, 0 for none
TopDiff(a, b) ==
    CHOOSE i \in 0..Len(a) :
        (i = 0 \/ a[i] # b[i]) /\ \A j \in (i + 1)..Len(a) : a[j] = b[j]

CmpAt(a, b, i) == IF i = 0 THEN 0 ELSE IF a[i] < b[i] THEN -1 ELSE 1

\* -1, 0, 1 as a < b, a = b, a > b
BCmp(a, b) ==
    IF Len(a) < Len(b) THEN -1
    ELSE IF Len(a) > Len(b) THEN 1
    ELSE CmpAt(a, b, TopDiff(a, b))

\* a * k for 0 <= k < Base
BMulSmall(a, k) ==
    Carry(SubSeq([i \in 1..(Len(a) + 1) |->
            ((Limb(a, i) * k) % Base) + ((Limb(a, i - 1) * k) \div Base)], 1, Len(a) + 1))

\* what limb i of a adds to column k of a * b: the low half of the product
\* a[i] * b[k+1-i] and the high half of a[i] * b[k-i]
Term(a, b, k, i) ==
    ((Limb(a, i) * Limb(b, k + 1 - i)) % Base) + ((Limb(a, i) * Limb(b, k - i)) \div Base)

\* the part of column k of a * b that comes from the limbs a[1..i]
RECURSIVE Column(_, _, _, _)
Column(a, b, k, i) ==
    IF i <= 0 THEN 0
    ELSE Term(a, b, k, i) + Term(a, b, k, i - 1) + Term(a, b, k, i - 2)
         + Term(a, b, k, i - 3) + Column(a, b, k, i - 4)

Columns(a, b, n) == SubSeq([k \in 1..n |-> Column(a, b, k, Len(a))], 1, n)

\* the columns as digit sums: the low half of each and the high half of the
\* one below
Halves(col) ==
    SubSeq([k \in 1..Len(col) |-> (col[k] % Base) + (Limb(col, k - 1) \div Base)],
           1, Len(col))

BMul(a, b) ==
    IF a = <<>> \/ b = <<>> THEN <<>>
    ELSE Carry(Halves(Columns(a, b, Len(a) + Len(b) + 1)))

BOfInt(n) ==
    IF n = 0 THEN <<>>
    ELSE IF n < Base THEN <<n>>
    ELSE IF n < Base * Base THEN <<n % Base, n \div Base>>
    ELSE <<n % Base, (n \div Base) % Base, n \div (Base * Base)>>

\* number of bits of a limb: 0 for 0, k when 2^(k-1) <= x < 2^k
LimbLen(x) == IF x = 0 THEN 0 ELSE CHOOSE k \in 1..15 : 2^(k-1) <= x /\ x < 2^k

BBitLen(a) == IF a = <<>> THEN 0 ELSE 15 * (Len(a) - 1) + LimbLen(a[Len(a)])

\* a * 2^(15*d + r) for 0 <= r < 15
ShlBy(a, d, r) ==
    BNorm([i \in 1..(Len(a) + d + 1) |->
            ((Limb(a, i - d) * 2^r) % Base) + ((Limb(a, i - d - 1) * 2^r) \div Base)],
          Len(a) + d + 1)

\* a * 2^n
BShl(a, n) == IF a = <<>> THEN <<>> ELSE ShlBy(a, n \div 15, n % 15)

\* floor(a / 2^(15*d + r)) for 0 <= r < 15 and d < Len(a)
ShrBy(a, d, r) ==
    BNorm([i \in 1..(Len(a) - d) |->
            (a[i + d] \div 2^r) + (Limb(a, i + d + 1) % 2^r) * 2^(15 - r)],
          Len(a) - d)

\* floor(a / 2^n)
BShr(a, n) == IF Len(a) <= n \div 15 THEN <<>> ELSE ShrBy(a, n \div 15, n % 15)

\* bit i (from 0) of a
BBit(a, i) == (Limb(a, (i \div 15) + 1) \div 2^(i % 15)) % 2

\* the low n bits of a are all zero
BLowZero(a, n) ==
    /\ \A i \in 1..(n \div 15) : Limb(a, i) = 0
    /\ Limb(a, (n \div 15) + 1) % 2^(n % 15) = 0

\* the lowest position of a > 0 that is not 0
Bottom(a) == CHOOSE j \in 1..Len(a) : a[j] # 0 /\ \A h \in 1..(j - 1) : a[h] = 0

\* number of trailing zero bits of a limb x > 0
LimbTrailing(x) == CHOOSE k \in 0..14 : x % 2^k = 0 /\ x % 2^(k+1) # 0

\* number of trailing zero bits of a > 0
BTrailing(a) == 15 * (Bottom(a) - 1) + LimbTrailing(a[Bottom(a)])

\* floor(a / k) for 0 < k < 2 * Base: the limbs i..1 of a are still to be
\* divided, r is the remainder so far and q the quotient limbs found
RECURSIVE BDivSmallAt(_, _, _, _, _)
BDivSmallAt(a, i, k, r, q) ==
    IF IsNat(q) /\ r >= 0 /\ i = 0 THEN q
    ELSE BDivSmallAt(a, i - 1, k, (r * Base + a[i]) % k,
                     <<(r * Base + a[i]) \div k>> \o q)

BDivSmall(a, k) == Trim(BDivSmallAt(a, Len(a), k, 0, <<>>))

(***************************************************************************)
(* Long division a / b (b > 0): quotient and "remainder is not zero".      *)
(* School division in radix Base on operands shifted so that the top limb  *)
(* of the divisor is at least Base/2; a quotient digit guessed from the    *)
(* top limbs is then at most 2 too large.                                  *)
(***************************************************************************)
RECURSIVE BFitDigit(_, _, _)
BFitDigit(r, b, q) ==
    IF BCmp(BMulSmall(b, q), r) > 0 THEN BFitDigit(r, b, q - 1) ELSE q

\* the guess of the quotient digit of r / b from the top limbs, Len(r) > Len(b)
Guess(r, b) == (r[Len(b) + 1] * Base + r[Len(b)]) \div b[Len(b)]

BDigit(r, b) ==
    IF Len(r) < Len(b) THEN 0
    ELSE IF Len(r) = Len(b) THEN (IF BCmp(r, b) >= 0 THEN 1 ELSE 0)
    ELSE BFitDigit(r, b, IF Guess(r, b) > Base - 1 THEN Base - 1 ELSE Guess(r, b))

\* the remainder r with the limb x brought down
Bring(x, r) == IF r = <<>> /\ x = 0 THEN <<>> ELSE <<x>> \o r

\* the limbs i..1 of a are still to be brought down, r is the remainder so
\* far and q the quotient limbs found; rn is r with limb i brought down and
\* d the quotient digit of rn / b
RECURSIVE BDivAt(_, _, _, _, _)
BDivSub(a, i, b, rn, q, d) ==
    IF d >= 0 THEN BDivAt(a, i - 1, b, BSub(rn, BMulSmall(b, d)), <<d>> \o q)
    ELSE [q |-> <<>>, r |-> <<>>]

BDivStep(a, i, b, rn, q) ==
    IF IsNat(rn) THEN BDivSub(a, i, b, rn, q, BDigit(rn, b))
    ELSE [q |-> <<>>, r |-> <<>>]

BDivAt(a, i, b, r, q) ==
    IF IsNat(r) /\ IsNat(q) /\ i = 0 THEN [q |-> q, r |-> r]
    ELSE BDivStep(a, i, b, Bring(a[i], r), q)

\* the quotient found and whether a remainder is left
QuoRem(d) == [q |-> Trim(d.q), sticky |-> d.r # <<>>]

\* a / b for b with the top limb at least Base/2
BDivNormal(a, b) == QuoRem(BDivAt(a, Len(a), b, <<>>, <<>>))

\* the shift that brings the top limb of b to at least Base/2
TopShift(b) == 15 - LimbLen(b[Len(b)])

BDivMod(a, b) == BDivNormal(BShl(a, TopShift(b)), BShl(b, TopShift(b)))

(***************************************************************************)
(* Floating-point values.  k is "fin", "inf" or "nan"; a finite value is   *)
(* s * m * 2^e with s in {1, -1} and m odd (or m = 0, a signed zero).      *)
(***************************************************************************)
\* sg * m * 2^(e - t) with the t trailing zero bits of m > 0 removed
Odd(sg, m, e, t) == [k |-> "fin", s |-> sg, m |-> BShr(m, t), e |-> e + t]

Fin(sg, m, e) ==
    IF m = <<>> THEN [k |-> "fin", s |-> sg, m |-> <<>>, e |-> 0]
    ELSE Odd(sg, m, e, BTrailing(m))

NaN == [k |-> "nan", s |-> 1, m |-> <<>>, e |-> 0]

Inf(sg) == [k |-> "inf", s |-> sg, m |-> <<>>, e |-> 0]

IsZero(v) == v.k = "fin" /\ v.m = <<>>

IsFinite(v) == v.k = "fin"

\* v is a floating-point value (the test has v computed where it stands)
IsValue(v) == v.k \in {"fin", "inf", "nan"}

\* significand bits of the C++ types float and double
FloatBits == 24

DoubleBits == 53

\* the format with p significand bits holds the multiples of 2^MinExp(p)
\* below 2^MaxExp(p): binary32 for float, binary64 for double; any other p
\* is a format of the intermediate computations, without exponent limits
MaxExp(p) ==
    CASE p = FloatBits -> 128 [] p = DoubleBits -> 1024 [] OTHER -> Base * Base

MinExp(p) ==
    CASE p = FloatBits -> -149 [] p = DoubleBits -> -1074 [] OTHER -> -(Base * Base)

\* m / 2^sh is rounded up: the first bit dropped is 1 and either a lower bit
\* is 1 or the last bit kept is 1 (a tie goes to even)
RoundsUp(m, sh) ==
    /\ BBit(m, sh - 1) = 1
    /\ (~BLowZero(m, sh - 1) \/ BBit(m, sh) = 1)

\* a finite v with its mantissa shortened by sh > 0 bits
Shorten(v, sh) ==
    Fin(v.s,
        IF RoundsUp(v.m, sh) THEN BAdd(BShr(v.m, sh), <<1>>) ELSE BShr(v.m, sh),
        v.e + sh)

\* the number of low bits a finite v # 0 loses in the format p: the last
\* bit kept is p - 1 places below the first one and not below 2^MinExp(p)
Excess(v, p) == Max(BBitLen(v.m) + v.e - p, MinExp(p)) - v.e

\* overflow: a magnitude of 2^MaxExp(p) or more is an infinity
Ranged(v, p) ==
    IF v.k = "fin" /\ BBitLen(v.m) + v.e > MaxExp(p) THEN Inf(v.s) ELSE v

RndAt(v, sh, p) == Ranged(IF sh > 0 THEN Shorten(v, sh) ELSE v, p)

\* v rounded to the format p, to nearest, ties to even
Rnd(v, p) == IF v.k # "fin" \/ v.m = <<>> THEN v ELSE RndAt(v, Excess(v, p), p)

ChopAt(v, sh, p) ==
    Ranged(IF sh > 0 THEN Fin(v.s, BShr(v.m, sh), v.e + sh) ELSE v, p)

\* v rounded to the format p towards zero
Chop(v, p) == IF v.k # "fin" \/ v.m = <<>> THEN v ELSE ChopAt(v, Excess(v, p), p)

AwayAt(v, sh, p) ==
    Ranged(IF sh > 0 THEN Fin(v.s, BAdd(BShr(v.m, sh), <<1>>), v.e + sh) ELSE v, p)

\* v rounded to the format p away from zero (the mantissa of v is odd, so
\* every bit lost makes the result inexact)
Away(v, p) == IF v.k # "fin" \/ v.m = <<>> THEN v ELSE AwayAt(v, Excess(v, p), p)

FNeg(v) == [v EXCEPT !.s = -v.s]

FAbs(v) == [v EXCEPT !.s = 1]

\* sa * x * 2^e + sb * y * 2^e rounded to p bits, for x, y > 0
AddAligned(sa, x, sb, y, e, p) ==
    IF sa = sb THEN Rnd(Fin(sa, BAdd(x, y), e), p)
    ELSE IF BCmp(x, y) = 0 THEN Fin(1, <<>>, 0)
    ELSE IF BCmp(x, y) > 0 THEN Rnd(Fin(sa, BSub(x, y), e), p)
    ELSE Rnd(Fin(sb, BSub(y, x), e), p)

\* a + b for finite a, b # 0, the mantissas brought to the exponent e
AddAt(a, b, e, p) ==
    AddAligned(a.s, BShl(a.m, a.e - e), b.s, BShl(b.m, b.e - e), e, p)

\* a + b rounded to p bits
FAdd(a, b, p) ==
    IF a.k = "nan" \/ b.k = "nan" THEN NaN
    ELSE IF a.k = "inf" THEN (IF b.k = "inf" /\ a.s # b.s THEN NaN ELSE a)
    ELSE IF b.k = "inf" THEN b
    ELSE IF a.m = <<>> /\ b.m = <<>> THEN Fin(IF a.s = b.s THEN a.s ELSE 1, <<>>, 0)
    ELSE IF a.m = <<>> THEN Rnd(b, p)
    ELSE IF b.m = <<>> THEN Rnd(a, p)
    ELSE AddAt(a, b, IF a.e < b.e THEN a.e ELSE b.e, p)

\* a * b rounded to p bits
FMul(a, b, p) ==
    IF a.k = "nan" \/ b.k = "nan" THEN NaN
    ELSE IF a.k = "inf" \/ b.k = "inf"
         THEN (IF IsZero(a) \/ IsZero(b) THEN NaN ELSE Inf(a.s * b.s))
    ELSE IF a.m = <<>> \/ b.m = <<>> THEN Fin(a.s * b.s, <<>>, 0)
    ELSE Rnd(Fin(a.s * b.s, BMul(a.m, b.m), a.e + b.e), p)

\* the quotient d.q with a last bit that tells whether a remainder is left
Sticky(d) == BAdd(BShl(d.q, 1), IF d.sticky THEN <<1>> ELSE <<>>)

\* a / b for finite a, b # 0, from the quotient of a.m * 2^sh by b.m
DivAt(a, b, sh, p) ==
    Rnd(Fin(a.s * b.s, Sticky(BDivMod(BShl(a.m, sh), b.m)), a.e - b.e - sh - 1), p)

\* a / b rounded to p bits: a quotient of at least p + 2 bits and a sticky bit
FDiv(a, b, p) ==
    IF a.k = "nan" \/ b.k = "nan" THEN NaN
    ELSE IF a.k = "inf" THEN (IF b.k = "inf" THEN NaN ELSE Inf(a.s * b.s))
    ELSE IF b.k = "inf" THEN Fin(a.s * b.s, <<>>, 0)
    ELSE IF b.m = <<>> THEN (IF a.m = <<>> THEN NaN ELSE Inf(a.s * b.s))
    ELSE IF a.m = <<>> THEN Fin(a.s * b.s, <<>>, 0)
    ELSE DivAt(a, b, Max(p + 2 + BBitLen(b.m) - BBitLen(a.m), 0), p)

\* -1, 0, 1 as v < 0, v = 0, v > 0
Sign(v) == IF v.m = <<>> THEN 0 ELSE v.s

\* -1, 0, 1 as a < b, a = b, a > b, for finite a and b (rounding a
\* difference without exponent limits keeps its sign)
FCmp(a, b) == Sign(FAdd(a, FNeg(b), 5 * 15))

FLess(a, b) == a.k = "fin" /\ b.k = "fin" /\ FCmp(a, b) < 0

\* floor(|v| * 2^bits)
ToFix(v, bits) ==
    IF v.e + bits >= 0 THEN BShl(v.m, v.e + bits) ELSE BShr(v.m, -(v.e + bits))

\* the integer n, |n| < Base^3
FOfInt(n) == IF n < 0 THEN Fin(-1, BOfInt(-n), 0) ELSE Fin(1, BOfInt(n), 0)

\* v / 2^k
Halved(v, k) == IF v.m = <<>> THEN v ELSE [v EXCEPT !.e = v.e - k]

\* n / 2^k
Dyadic(n, k) == Halved(FOfInt(n), k)

(***************************************************************************)
(* The library functions std::atan, std::tan and std::cos.  The            *)
(* mathematical value is computed to more than Guard significant bits from *)
(* the power series after argument reduction (FixBits fraction bits for    *)
(* the factors near 1, the small factor kept as a floating-point value).   *)
(* std::atan of a float returns a float within 1 ulp of it (on every      *)
(* float), and so do std::tan and std::cos of a double below 2^LargeBits.  *)
(* From 2^LargeBits on the library reduces the argument with a part of the *)
(* digits of 2/pi: the reduced argument it works with is within            *)
(* 2^-SlackBits of |y| - q * pi/2, and the value returned is within 1 ulp  *)
(* of the function of that one; next to a multiple of pi/2 that is many    *)
(* ulps of the mathematical value.  AtanValues, TanValues and CosValues    *)
(* are the values a call can return; TanReturns and CosReturns tell        *)
(* whether a call can return a given value.                                *)
(***************************************************************************)
FixBits == 5 * 15

\* the computed values are exact to more than Guard significant bits
Guard == FixBits - 11

\* a precision at which v * (1 +- 2^-Guard) is exact
Wide == 4 * FixBits

HugeBits == 80 * 15

\* floor(pi/2 * 2^HugeBits)
PiHalfHuge ==
    << 16650, 19800, 25367, 22881, 5237, 18679, 12974, 24451, 18846, 9204,
       12797, 9873, 14963, 1813, 9243, 6362, 32267, 1422, 26053, 8199,
       26552, 14614, 10486, 10342, 19602, 11391, 3042, 29249, 13779, 26601,
       11588, 27643, 23664, 24503, 8245, 19311, 32747, 23234, 7158, 27046,
       6277, 7121, 29686, 26149, 13998, 31009, 24866, 27985, 27354, 16260,
       8634, 9713, 19902, 2754, 3480, 14915, 26522, 21606, 28540, 16461,
       12742, 542, 10405, 6946, 30247, 31384, 4189, 18240, 19705, 546,
       295, 20777, 14393, 11779, 13076, 19532, 6214, 2138, 27985, 18703,
       1 >>

\* floor(pi/2 * 2^bits)
PiHalf(bits) == BShr(PiHalfHuge, HugeBits - bits)

PiBits == 9 * 15

PiHalfBig == PiHalf(PiBits)

PiHalfExact == Fin(1, PiHalfBig, -PiBits)

OneFix == BShl(<<1>>, FixBits)

\* atan(c / 4) * 2^FixBits for c = 0..4
AtanQuarter(c) ==
    CASE c = 0 -> <<>>
      [] c = 1 -> <<10972, 7084, 19232, 15100, 8027>>
      [] c = 2 -> <<5568, 21466, 12509, 26373, 15192>>
      [] c = 3 -> <<8397, 28818, 9886, 8006, 21086>>
      [] c = 4 -> <<9766, 3107, 17453, 30376, 25735>>

\* sum over i >= n of (-z)^(i-n) / (2i+1), z = u^2 in fixed point, from acc
\* (the sum over i > n)
RECURSIVE AtanHorner(_, _, _)
AtanHorner(z, n, acc) ==
    IF IsNat(acc) /\ n < 0 THEN acc
    ELSE AtanHorner(z, n - 1,
            BSub(BDivSmall(OneFix, 2 * n + 1), BShr(BMul(acc, z), FixBits)))

\* atan(u) / u in fixed point for u^2 = z <= 1/64
AtanRatio(z) == AtanHorner(z, 14, <<>>)

\* atan(t) for a finite 0 < t < 1/8: t * (atan(t) / t)
AtanSmall(t) ==
    FMul(t, Fin(1, AtanRatio(ToFix(FMul(t, t, FixBits), FixBits)), -FixBits),
         FixBits + 10)

\* atan(u) in fixed point for u in fixed point, u <= 1/8
AtanSeries(u) == BShr(BMul(u, AtanRatio(BShr(BMul(u, u), FixBits))), FixBits)

\* c / 4 in fixed point
Quarter(c) == BShl(BOfInt(c), FixBits - 2)

\* |a - b|
Dist(a, b) == IF BCmp(a, b) < 0 THEN BSub(b, a) ELSE BSub(a, b)

\* atan(c/4) - au or atan(c/4) + au
AtanFrom(c, below, au) ==
    Fin(1, IF below THEN BSub(AtanQuarter(c), au) ELSE BAdd(AtanQuarter(c), au),
        -FixBits)

\* atan(tf) for tf in fixed point next to c/4:
\* atan(c/4) + atan((tf - c/4) / (1 + tf * c/4))
AtanNear(tf, c) ==
    AtanFrom(c, BCmp(tf, Quarter(c)) < 0,
             AtanSeries(BDivMod(BShl(Dist(tf, Quarter(c)), FixBits),
                                BAdd(OneFix, BShr(BMulSmall(tf, c), 2))).q))

\* the c with c/4 nearest to tf
Nearest(tf) == Low(BShr(BAdd(tf, BShl(<<1>>, FixBits - 3)), FixBits - 2))

AtanFixed(tf) == IF IsNat(tf) THEN AtanNear(tf, Nearest(tf)) ELSE NaN

\* atan(t) for a finite 0 < t <= 1
AtanUnit(t) ==
    IF BBitLen(t.m) + t.e < -2 THEN AtanSmall(t) ELSE AtanFixed(ToFix(t, FixBits))

\* ax > 1
AboveOne(ax) == BBitLen(ax.m) + ax.e > 0 /\ ~(ax.m = <<1>> /\ ax.e = 0)

\* pi/2 - au
Complement(au) ==
    IF IsValue(au) THEN FAdd(PiHalfExact, FNeg(au), FixBits + 10) ELSE NaN

\* atan(ax) for a finite ax > 0: pi/2 - atan(1/ax) above 1
AtanAbs(ax) ==
    IF AboveOne(ax) THEN Complement(AtanUnit(FDiv(Fin(1, <<1>>, 0), ax, FixBits)))
    ELSE AtanUnit(ax)

\* |atan(x)| for any x but a NaN and a zero
AtanOf(x) == IF x.k = "inf" THEN PiHalfExact ELSE AtanAbs(FAbs(x))

\* sin(d)/d in fixed point from z = d^2 <= (pi/4)^2: 1 - z/(2*3) (1 - z/(4*5) (...))
RECURSIVE SinHorner(_, _, _)
SinHorner(z, n, acc) ==
    IF IsNat(acc) /\ n = 0 THEN acc
    ELSE SinHorner(z, n - 1,
            BSub(OneFix, BDivSmall(BShr(BMul(z, acc), FixBits), (2 * n) * (2 * n + 1))))

\* cos(d) in fixed point from z = d^2: 1 - z/(1*2) (1 - z/(3*4) (...))
RECURSIVE CosHorner(_, _, _)
CosHorner(z, n, acc) ==
    IF IsNat(acc) /\ n = 0 THEN acc
    ELSE CosHorner(z, n - 1,
            BSub(OneFix, BDivSmall(BShr(BMul(z, acc), FixBits), (2 * n - 1) * (2 * n))))

\* the fraction bits of pi/2 that the reduction of y takes: those before
\* the binary point of y and 150 or more behind it (no double is nearer to
\* a multiple of pi/2 than 2^-62 of its own size)
ReduceBits(y) == 15 * ((Max(BBitLen(y.m) + y.e, 0) + 164) \div 15)

\* the multiple of pi/2 nearest to |y|
Quadrant(y, bits) ==
    BDivMod(BAdd(ToFix(y, bits), BShr(PiHalf(bits), 1)), PiHalf(bits)).q

\* |y| - q * pi/2
Delta(y, q, bits) ==
    FAdd(FAbs(y), Fin(-1, BMul(PiHalf(bits), q), -bits), FixBits + 5)

\* q mod 4, sin(d) and cos(d) from z = d^2 in fixed point
Series(q, d, z) ==
    IF IsNat(z)
    THEN [q   |-> q,
          sin |-> FMul(d, Fin(1, SinHorner(z, 12, OneFix), -FixBits), FixBits),
          cos |-> Fin(1, CosHorner(z, 12, OneFix), -FixBits)]
    ELSE [q |-> 0, sin |-> NaN, cos |-> NaN]

ReduceTo(q, d) ==
    IF IsValue(d) THEN Series(Low(q) % 4, d, ToFix(FMul(d, d, FixBits), FixBits))
    ELSE [q |-> 0, sin |-> NaN, cos |-> NaN]

ReduceBy(y, q, bits) ==
    IF IsNat(q) THEN ReduceTo(q, Delta(y, q, bits))
    ELSE [q |-> 0, sin |-> NaN, cos |-> NaN]

ReduceAt(y, bits) == ReduceBy(y, Quadrant(y, bits), bits)

\* |y| = q * pi/2 + d with |d| <= pi/4: q mod 4, sin(d) and cos(d)
Reduce(y) == ReduceAt(y, ReduceBits(y))

\* sin and cos of q * pi/2 + d from those of d
Turn(r) ==
    [sin |-> CASE r.q = 0 -> r.sin
               [] r.q = 1 -> r.cos
               [] r.q = 2 -> FNeg(r.sin)
               [] r.q = 3 -> FNeg(r.cos),
     cos |-> CASE r.q = 0 -> r.cos
               [] r.q = 1 -> FNeg(r.sin)
               [] r.q = 2 -> FNeg(r.cos)
               [] r.q = 3 -> r.sin]

\* sin and cos of sg * a from those of a >= 0
Signed(sg, sc) == [sin |-> IF sg < 0 THEN FNeg(sc.sin) ELSE sc.sin, cos |-> sc.cos]

\* sin(y) and cos(y) for a finite y # 0
SinCos(y) == Signed(y.s, Turn(Reduce(y)))

\* sin / cos
Ratio(sc) ==
    IF IsValue(sc.sin) /\ IsValue(sc.cos) THEN FDiv(sc.sin, sc.cos, FixBits) ELSE NaN

\* tan(y) for a finite y # 0
TanOf(y) == Ratio(SinCos(y))

\* cos(y) for a finite y # 0
CosOf(y) == SinCos(y).cos

\* the values of the format p within 1 ulp of a value that v # 0 gives to
\* Guard bits: the ones next to v * (1 - 2^-Guard) and v * (1 + 2^-Guard)
Lower(v) == FAdd(v, FNeg(Halved(v, Guard)), Wide)

Upper(v) == FAdd(v, Halved(v, Guard), Wide)

Between(lo, hi, p) == {Chop(lo, p), Away(lo, p), Chop(hi, p), Away(hi, p)}

Faithful(v, p) == IF IsValue(v) THEN Between(Lower(v), Upper(v), p) ELSE {}

WithSign(sg, vs) == {[v EXCEPT !.s = sg] : v \in vs}

\* the library reduces a double of 2^LargeBits or more in magnitude with a
\* part of the digits of 2/pi (glibc: from 1e8 on in tan, from 105414350 on
\* in cos)
LargeBits == 26

\* and its reduced argument is then within 2^-SlackBits of |y| - q * pi/2
\* (measured on doubles next to multiples of pi/2 of every binary exponent:
\* up to 2^-92.4)
SlackBits == 90

Large(y) == BBitLen(y.m) + y.e > LargeBits

Slack == Fin(1, <<1>>, -SlackBits)

\* sin and cos of the finite y # 0 with the sign sg from the reduced
\* arguments furthest off, d - 2^-SlackBits and d + 2^-SlackBits for
\* d = |y| - q * pi/2 (no double is as near as 2^-SlackBits to a multiple of
\* pi/2, so the tangent and the cosine are monotonic between them)
SinCosOff(sg, q, d, err) == Signed(sg, Turn(ReduceTo(q, FAdd(d, err, FixBits + 5))))

EndsFrom(sg, q, d) ==
    [below |-> SinCosOff(sg, q, d, FNeg(Slack)), above |-> SinCosOff(sg, q, d, Slack)]

EndsBy(y, q, bits) ==
    IF IsNat(q) THEN EndsFrom(y.s, q, Delta(y, q, bits))
    ELSE [below |-> [sin |-> NaN, cos |-> NaN], above |-> [sin |-> NaN, cos |-> NaN]]

EndsAt(y, bits) == EndsBy(y, Quadrant(y, bits), bits)

Ends(y) == EndsAt(y, ReduceBits(y))

\* of a and b the one nearer to zero and the one further from zero
Inner(a, b) == IF FCmp(FAbs(a), FAbs(b)) <= 0 THEN a ELSE b

Outer(a, b) == IF FCmp(FAbs(a), FAbs(b)) <= 0 THEN b ELSE a

\* the values of the format p nearest to zero and furthest from zero that
\* are within 1 ulp of a value between a and b
LowEnd(a, b, p) == Chop(Lower(Inner(a, b)), p)

HighEnd(a, b, p) == Away(Upper(Outer(a, b)), p)

\* the exponent of the last place of v in the format p
Ulp(v, p) == Max(BBitLen(v.m) + v.e - p, MinExp(p))

\* |v| in units of 2^e, for e <= v.e
Units(v, e) == BShl(v.m, v.e - e)

\* the natural number a < Base^3 as an integer
BInt(a) == Limb(a, 1) + Base * Limb(a, 2) + Base * Base * Limb(a, 3)

\* the values of the format p from u to v, for finite values u # 0 and v
\* of the format with the same sign and |u| <= |v|: u plus each multiple of
\* its last place up to v, as a value of the format
SpanAt(u, v, e, p) ==
    {Rnd(Fin(u.s, BAdd(Units(u, e), BOfInt(j)), e), p) :
        j \in 0..BInt(BSub(Units(v, e), Units(u, e)))}

Span(u, v, p) == SpanAt(u, v, Ulp(u, p), p)

\* v is a value of the format p from lo to hi
Spans(lo, hi, v, p) ==
    /\ v.k = "fin" /\ v.s = lo.s /\ Rnd(v, p) = v
    /\ FCmp(FAbs(lo), FAbs(v)) <= 0
    /\ FCmp(FAbs(v), FAbs(hi)) <= 0

\* the values of the format p within 1 ulp of a value between a and b
Within(a, b, p) ==
    IF IsValue(a) /\ IsValue(b) THEN Span(LowEnd(a, b, p), HighEnd(a, b, p), p)
    ELSE {}

\* v is one of them
IsWithin(a, b, v, p) ==
    IsValue(a) /\ IsValue(b) /\ Spans(LowEnd(a, b, p), HighEnd(a, b, p), v, p)

\* the values of the format p that std::tan and std::cos of a large y can
\* return, from the ends ends
TanLarge(ends, p) == Within(Ratio(ends.below), Ratio(ends.above), p)

CosLarge(ends, p) == Within(ends.below.cos, ends.above.cos, p)

\* v is one of them
IsTanLarge(ends, v, p) == IsWithin(Ratio(ends.below), Ratio(ends.above), v, p)

IsCosLarge(ends, v, p) == IsWithin(ends.below.cos, ends.above.cos, v, p)

\* std::atan(x) in the format p: the values a library can return
AtanValues(x, p) ==
    IF x.k = "nan" THEN {NaN}
    ELSE IF x.k = "fin" /\ x.m = <<>> THEN {x}
    ELSE WithSign(x.s, Faithful(AtanOf(x), p))

\* std::tan(y) in the format p: the values a library can return
TanValues(y, p) ==
    IF y.k # "fin" THEN {NaN}
    ELSE IF y.m = <<>> THEN {y}
    ELSE IF Large(y) THEN TanLarge(Ends(y), p)
    ELSE Faithful(TanOf(y), p)

\* std::cos(y) in the format p: the values a library can return
CosValues(y, p) ==
    IF y.k # "fin" THEN {NaN}
    ELSE IF y.m = <<>> THEN {Fin(1, <<1>>, 0)}
    ELSE IF Large(y) THEN CosLarge(Ends(y), p)
    ELSE Faithful(CosOf(y), p)

\* std::tan(y) and std::cos(y) can return v
TanReturns(y, v, p) ==
    IF y.k = "fin" /\ y.m # <<>> /\ Large(y) THEN IsTanLarge(Ends(y), v, p)
    ELSE v \in TanValues(y, p)

CosReturns(y, v, p) ==
    IF y.k = "fin" /\ y.m # <<>> /\ Large(y) THEN IsCosLarge(Ends(y), v, p)
    ELSE v \in CosValues(y, p)

(***************************************************************************)
(* The module.                                                             *)
(***************************************************************************)
\* M_PI / 2. (a double)
M_PI_2 == Rnd(PiHalfExact, DoubleBits)

\* the member initialisers mass(parameters.get<double>("mass")) and
\* width(...): a double converted to the member's type, const float (the
\* IEEE-754 conversion: to nearest, to an infinity beyond the float range)
ToMember(d) == Rnd(d, FloatBits)

\* mass / width, the argument of std::atan on lines 82 and 83 (a float)
Quotient(mass, width) == FDiv(mass, width, FloatBits)

\* line 82: const double range = M_PI / 2. + std::atan(mass / width), with
\* the float at that std::atan returned
Range(at) == FAdd(M_PI_2, at, DoubleBits)

\* line 83: const double y = - std::atan(mass / width) + range * psPoint
Y(at, range, psPoint) ==
    FAdd(FNeg(at), FMul(range, psPoint, DoubleBits), DoubleBits)

\* line 85: *s = mass * width * std::tan(y) + (mass * mass), with the double
\* tn that std::tan returned
S(mass, width, tn) ==
    FAdd(FMul(FMul(mass, width, FloatBits), tn, DoubleBits),
         FMul(mass, mass, FloatBits), DoubleBits)

\* the jacobian with the cosine not squared
JacobianUnsquared(range, mass, width, cs) ==
    FDiv(FMul(FMul(range, mass, DoubleBits), width, DoubleBits), cs, DoubleBits)

\* line 86: *jacobian = range * mass * width / (std::cos(y) * std::cos(y)),
\* with the double cs that std::cos returned
Jacobian(range, mass, width, cs) ==
    FDiv(FMul(FMul(range, mass, DoubleBits), width, DoubleBits),
         FMul(cs, cs, DoubleBits), DoubleBits)

\* the locals and the two values assigned
Assign(mass, width, at, range, y, tn, cs) ==
    [arg |-> Quotient(mass, width), atan |-> at, range |-> range, y |-> y,
     tan |-> tn, cos |-> cs,
     s |-> S(mass, width, tn), jacobian |-> Jacobian(range, mass, width, cs)]

\* lines 85 and 86 for the values std::tan(y) and std::cos(y) can return
WithY(mass, width, at, range, y) ==
    IF IsValue(y)
    THEN {Assign(mass, width, at, range, y, tn, cs) :
            tn \in TanValues(y, DoubleBits), cs \in CosValues(y, DoubleBits)}
    ELSE {}

WithRange(mass, width, psPoint, at, range) ==
    IF IsValue(range) THEN WithY(mass, width, at, range, Y(at, range, psPoint))
    ELSE {}

\* lines 82 to 86 with the float at that std::atan(mass / width) returned
WithAtan(mass, width, psPoint, at) == WithRange(mass, width, psPoint, at, Range(at))

\* work(): what an evaluation with the members mass and width and the
\* sample psPoint can compute, statement by statement
Evaluate(mass, width, psPoint) ==
    UNION {WithAtan(mass, width, psPoint, at) :
             at \in AtanValues(Quotient(mass, width), FloatBits)}

\* r holds the locals and the two values of an evaluation that work() can
\* make with the members mass and width and the sample psPoint: r is in
\* Evaluate(mass, width, psPoint)
Computes(mass, width, psPoint, r) ==
    /\ r.arg = Quotient(mass, width)
    /\ r.atan \in AtanValues(r.arg, FloatBits)
    /\ r.range = Range(r.atan)
    /\ r.y = Y(r.atan, r.range, psPoint)
    /\ TanReturns(r.y, r.tan, DoubleBits)
    /\ CosReturns(r.y, r.cos, DoubleBits)
    /\ r.s = S(mass, width, r.tan)
    /\ r.jacobian = Jacobian(r.range, mass, width, r.cos)

-----------------------------------------------------------------------------
\* The values the host can supply.

\* number of configurations the "mass" and "width" parameters are drawn from
NumConfigs == 8

\* the samples j/4 for j in 0..NumSamples are supplied as ps_point
NumSamples == 3

\* the (mass, width) pairs of the ParameterSet, as the doubles the
\* configuration holds: 1 is (1, 1); 2 is (125, 0.004); 3 is (1, 2^-26);
\* 4 is (91.1876, 2.4952); 5 is (1, 0); 6 is (0, 0); 7 is (-3, 0.5);
\* 8 is (1, -1); 9 is (173, 1.5)
Config(n) ==
    CASE n = 1 -> [mass |-> FOfInt(1), width |-> FOfInt(1)]
      [] n = 2 -> [mass  |-> FOfInt(125),
                   width |-> Fin(1, <<27263, 27000, 25165, 32>>, -58)]
      [] n = 3 -> [mass |-> FOfInt(1), width |-> Dyadic(1, 26)]
      [] n = 4 -> [mass  |-> Fin(1, <<5977, 9070, 6147, 91>>, -45),
                   width |-> Fin(1, <<21863, 21967, 22701, 159>>, -51)]
      [] n = 5 -> [mass |-> FOfInt(1), width |-> FOfInt(0)]
      [] n = 6 -> [mass |-> FOfInt(0), width |-> FOfInt(0)]
      [] n = 7 -> [mass |-> FOfInt(-3), width |-> Dyadic(1, 1)]
      [] n = 8 -> [mass |-> FOfInt(1), width |-> FOfInt(-1)]
      [] OTHER -> [mass |-> FOfInt(173), width |-> Dyadic(3, 1)]

Configs == {Config(n) : n \in 1..NumConfigs}

\* the values ps_point takes: the grid from 0 on and three values outside
\* [0, 1), one of them large (2^40)
Samples ==
    {Dyadic(j, 2) : j \in 0..NumSamples} \cup {FOfInt(2), Dyadic(-1, 3), Dyadic(1, -40)}

\* the configurations and samples of two modules side by side
PairConfigs == {Config(1), Config(2)}

PairSamples == {Dyadic(1, 2), Dyadic(1, 1)}

\* the members and sample of every evaluation the host can cause
Inputs == {<<ToMember(c.mass), ToMember(c.width), x>> : c \in Configs, x \in Samples}

\* the function f with every value computed, as a table
Tabulated(f) == f @@ <<>>

\* work() on each of them
Evaluated == Tabulated([in \in Inputs |-> Evaluate(in[1], in[2], in[3])])

\* no evaluation yet
None == [k |-> "none"]

-----------------------------------------------------------------------------
\* The state: for each module instance the ParameterSet it was built from,
\* its members (mass, width) and its pool entries (the input ps_point, the
\* outputs s and jacobian); dims holds the dimension count the host has last
\* read, if any; first and last are the first and the last evaluation made,
\* each with the sample read, what the library returned and the two values
\* written; varied tells whether a sample other than the first one has been
\* evaluated.

VARIABLES parameters, members, pool, dims, first, last, varied

vars == <<parameters, members, pool, dims, first, last, varied>>

Instances == DOMAIN parameters

\* the constructor, for the instances I, with parameters from C; the pool
\* holds a sample from X and zero-initialised outputs
Construct(I, C, X) ==
    /\ parameters \in [I -> C]
    /\ members = [i \in I |-> [mass  |-> ToMember(parameters[i].mass),
                               width |-> ToMember(parameters[i].width)]]
    /\ pool \in [I -> {[ps_point |-> x, s |-> FOfInt(0), jacobian |-> FOfInt(0)] :
                         x \in X}]
    /\ dims = [i \in I |-> <<>>]
    /\ first = [i \in I |-> None]
    /\ last = [i \in I |-> None]
    /\ varied = [i \in I |-> FALSE]

\* the host (the integrator) writes the next phase-space point
SetPsPoint(i, x) ==
    /\ pool' = [pool EXCEPT ![i].ps_point = x]
    /\ UNCHANGED <<parameters, members, dims, first, last, varied>>

\* the evaluation of the sample x that computed r
Made(x, r) ==
    [x |-> x, arg |-> r.arg, atan |-> r.atan, y |-> r.y, tan |-> r.tan,
     cos |-> r.cos, s |-> r.s, jacobian |-> r.jacobian]

\* the history of instance i after the evaluation rec
Record(i, rec) ==
    /\ first' = [first EXCEPT ![i] = IF first[i] = None THEN rec ELSE first[i]]
    /\ last' = [last EXCEPT ![i] = rec]
    /\ varied' = [varied EXCEPT ![i] = varied[i] \/ (first[i] # None /\ first[i].x # rec.x)]

\* the evaluations on record
Known == ({first[j] : j \in Instances} \cup {last[j] : j \in Instances}) \ {None}

\* the library functions are functions: r has, for an argument of a call on
\* record, what that call returned
Agrees(r) ==
    \A k \in Known :
        /\ k.arg = r.arg => k.atan = r.atan
        /\ k.y = r.y => (k.tan = r.tan /\ k.cos = r.cos)

\* what work() of instance i can compute
Computed(i) ==
    {r \in Evaluated[<<members[i].mass, members[i].width, pool[i].ps_point>>] :
        Agrees(r)}

\* work() that adds to the slot s what it computes
WorkAdding(i) ==
    \E r \in Computed(i) :
        /\ pool' = [pool EXCEPT ![i].s = FAdd(pool[i].s, r.s, DoubleBits),
                                ![i].jacobian = r.jacobian]
        /\ Record(i, Made(pool[i].ps_point, r))
        /\ UNCHANGED <<parameters, members, dims>>

\* work() that returns early on parameters or a sample it takes for invalid
WorkChecked(i) ==
    \E r \in Computed(i) :
        /\ members[i].width.m # <<>>
        /\ members[i].mass.s = 1 /\ members[i].width.s = 1
        /\ pool[i].ps_point.s = 1
        /\ pool' = [pool EXCEPT ![i].s = r.s, ![i].jacobian = r.jacobian]
        /\ Record(i, Made(pool[i].ps_point, r))
        /\ UNCHANGED <<parameters, members, dims>>

\* work() whose outputs are one pool entry for all the instances
WorkShared(i) ==
    \E r \in Computed(i) :
        /\ pool' = [j \in Instances |->
                       [pool[j] EXCEPT !.s = r.s, !.jacobian = r.jacobian]]
        /\ Record(i, Made(pool[i].ps_point, r))
        /\ UNCHANGED <<parameters, members, dims>>

\* work()
Work(i) ==
    \E r \in Computed(i) :
        /\ pool' = [pool EXCEPT ![i].s = r.s, ![i].jacobian = r.jacobian]
        /\ Record(i, Made(pool[i].ps_point, r))
        /\ UNCHANGED <<parameters, members, dims>>

\* dimensions() that counts no dimension for a module without a width
dimensionsOfWidth(i) == IF members[i].width.m = <<>> THEN 0 ELSE 1

\* dimensions()
dimensions(i) == 1

\* the host asks for the dimensions of instance i
Dimensions(i) ==
    /\ dims' = [dims EXCEPT ![i] = <<dimensions(i)>>]
    /\ UNCHANGED <<parameters, members, pool, first, last, varied>>

\* one module
Init == Construct({1}, Configs, Samples)

Next ==
    \/ \E i \in Instances, x \in Samples : SetPsPoint(i, x)
    \/ \E i \in Instances : Work(i)
    \/ \E i \in Instances : Dimensions(i)

Spec == Init /\ [][Next]_vars

\* two modules side by side, evaluated in any order
InitPair == Construct({1, 2}, PairConfigs, PairSamples)

NextPair ==
    \/ \E i \in Instances, x \in PairSamples : SetPsPoint(i, x)
    \/ \E i \in Instances : Work(i)

SpecPair == InitPair /\ [][NextPair]_vars

-----------------------------------------------------------------------------
\* What the properties are stated with.

Zero == FOfInt(0)

\* v > 0
Positive(v) == v.k = "fin" /\ v.m # <<>> /\ v.s = 1

\* 0 <= x < 1
InUnit(x) == x.k = "fin" /\ (x.m = <<>> \/ (x.s = 1 /\ BBitLen(x.m) + x.e <= 0))

\* mass > 0 and width > 0
Valid(c) == Positive(c.mass) /\ Positive(c.width)

\* instance i has been evaluated
Evaluations(i) == last[i] # None

\* a precision at which the sums of the values met are exact
ExactBits == 16 * DoubleBits

\* |a - b|
Gap(a, b) == FAbs(FAdd(a, FNeg(b), ExactBits))

\* the relative tolerance of the comparisons, 2^-12
Tolerance == Dyadic(1, 12)

\* a is b within the tolerance, relative to |b| + |scale|; values that are
\* not finite have to be the same
Near(a, b, scale) ==
    IF a.k # "fin" \/ b.k # "fin" THEN a = b
    ELSE ~FLess(FMul(Tolerance, FAdd(FAbs(b), FAbs(scale), ExactBits), ExactBits),
                Gap(a, b))

\* the change of variable of the class documentation for the doubles mass,
\* width and x: range = pi/2 + atan(mass/width), y = -atan(mass/width) +
\* range * x, s = mass * width * tan(y) + mass^2 and
\* jacobian = range * mass * width / cos(y)^2, in double arithmetic
\* with the arctangent, the tangent and the cosine of the formula as the
\* mathematical functions, rounded to the format p
Atan(x, p) ==
    IF x.k = "nan" THEN NaN
    ELSE IF x.k = "fin" /\ x.m = <<>> THEN x
    ELSE [Rnd(AtanOf(x), p) EXCEPT !.s = x.s]

Tan(y, p) ==
    IF y.k # "fin" THEN NaN
    ELSE IF y.m = <<>> THEN y
    ELSE Rnd(TanOf(y), p)

Cos(y, p) ==
    IF y.k # "fin" THEN NaN
    ELSE IF y.m = <<>> THEN Fin(1, <<1>>, 0)
    ELSE Rnd(CosOf(y), p)

DocAtan(mass, width) == Atan(FDiv(mass, width, DoubleBits), DoubleBits)

DocRange(mass, width) == FAdd(M_PI_2, DocAtan(mass, width), DoubleBits)

DocY(mass, width, range, x) ==
    FAdd(FNeg(DocAtan(mass, width)), FMul(range, x, DoubleBits), DoubleBits)

DocS(mass, width, y) ==
    FAdd(FMul(FMul(mass, width, DoubleBits), Tan(y, DoubleBits), DoubleBits),
         FMul(mass, mass, DoubleBits), DoubleBits)

DocSquare(c) == IF IsValue(c) THEN FMul(c, c, DoubleBits) ELSE NaN

DocJacobian(range, mass, width, y) ==
    FDiv(FMul(FMul(range, mass, DoubleBits), width, DoubleBits),
         DocSquare(Cos(y, DoubleBits)), DoubleBits)

DocAssign(mass, width, range, y) ==
    IF IsValue(y)
    THEN [s |-> DocS(mass, width, y), jacobian |-> DocJacobian(range, mass, width, y)]
    ELSE [s |-> NaN, jacobian |-> NaN]

DocWithRange(mass, width, x, range) ==
    IF IsValue(range) THEN DocAssign(mass, width, range, DocY(mass, width, range, x))
    ELSE [s |-> NaN, jacobian |-> NaN]

Documented(mass, width, x) == DocWithRange(mass, width, x, DocRange(mass, width))

DocumentedAt ==
    Tabulated([in \in {<<c, x>> : c \in Configs, x \in Samples} |->
                  Documented(in[1].mass, in[1].width, in[2])])

\* the members and samples with mass > 0, width > 0 and 0 <= x < 1
ValidInputs == {in \in Inputs : Positive(in[1]) /\ Positive(in[2]) /\ InUnit(in[3])}

\* 2^k for the k with 2^(k-1) <= |v| < 2^k
PowerAbove(v) == Fin(1, <<1>>, BBitLen(v.m) + v.e)

\* the step of the finite difference at the angle y: 2^-14 of the distance
\* of y from the pole of the tangent (as a power of 2)
StepAt(y) == Halved(PowerAbove(Gap(PiHalfExact, FAbs(y))), 14)

\* the s an evaluation of the sample x can write when std::atan returned at
Written(mass, width, x, at) == {r.s : r \in WithAtan(mass, width, x, at)}

\* (s(x + h) - s(x - h)) / (2 h) for the s that work() can write
Slopes(mass, width, x, at, h) ==
    {FDiv(FAdd(sp, FNeg(sm), DoubleBits), Halved(h, -1), DoubleBits) :
        sp \in Written(mass, width, FAdd(x, h, DoubleBits), at),
        sm \in Written(mass, width, FAdd(x, FNeg(h), DoubleBits), at)}

\* the valid inputs with the atan and the angle y of their evaluations
Angles == UNION {{<<in[1], in[2], in[3], r.atan, r.y>> : r \in Evaluated[in]} :
                    in \in ValidInputs}

SlopesAt == Tabulated([q \in Angles |-> Slopes(q[1], q[2], q[3], q[4], StepAt(q[5]))])

-----------------------------------------------------------------------------
\* C1: every evaluation writes the s and the jacobian of the documented
\* change of variable for the mass and width given at construction and the
\* sample read (here: up to the relative tolerance 2^-12, s relative to
\* |s| + mass^2).
C1_WritesDocumentedFormula ==
    \A i \in Instances :
        Evaluations(i) =>
            /\ Near(pool[i].s, DocumentedAt[<<parameters[i], last[i].x>>].s,
                    FMul(parameters[i].mass, parameters[i].mass, DoubleBits))
            /\ Near(pool[i].jacobian,
                    DocumentedAt[<<parameters[i], last[i].x>>].jacobian, Zero)

\* C2: dimensions() is 1 for every instance in every state, whatever the
\* parameters and however many evaluations were made, and 1 is what the
\* host has read whenever it asked.
C2_DimensionsIsOne ==
    \A i \in Instances :
        /\ dimensions(i) = 1
        /\ \A n \in 1..Len(dims[i]) : dims[i][n] = 1

\* the host has read the dimensions of an evaluated module built with
\* width = 0
C2_Witness ==
    \E i \in Instances :
        dims[i] = <<1>> /\ Evaluations(i) /\ IsZero(parameters[i].width)

\* C3: for mass > 0 and width > 0 an evaluation with x = 0 writes s = 0 (up
\* to the tolerance 2^-12 relative to mass^2).
C3_ZeroAtLowerEnd ==
    \A i \in Instances :
        (Evaluations(i) /\ Valid(parameters[i]) /\ IsZero(last[i].x)) =>
            Near(pool[i].s, Zero,
                 FMul(parameters[i].mass, parameters[i].mass, DoubleBits))

\* C4: for mass > 0, width > 0 and 0 <= x < 1 the angle y of an evaluation
\* is strictly between -pi/2 and pi/2, cos(y) is not 0, s is finite and the
\* jacobian is finite and positive.
C4_AngleInsidePoles ==
    \A i \in Instances :
        (Evaluations(i) /\ Valid(parameters[i]) /\ InUnit(last[i].x)) =>
            /\ FLess(FNeg(PiHalfExact), last[i].y)
            /\ FLess(last[i].y, PiHalfExact)
            /\ ~IsZero(last[i].cos)
            /\ IsFinite(pool[i].s)
            /\ IsFinite(pool[i].jacobian)
            /\ Positive(pool[i].jacobian)

\* C5: for mass > 0 and width > 0, of two evaluations with samples
\* x1 < x2 in [0, 1) the one with x1 writes the smaller s.
C5_Increasing ==
    \A i \in Instances :
        (/\ Evaluations(i) /\ Valid(parameters[i])
         /\ InUnit(first[i].x) /\ InUnit(last[i].x)
         /\ FLess(first[i].x, last[i].x)) =>
            FLess(first[i].s, last[i].s)

\* C6: for mass > 0, width > 0 and 0 <= x < 1 the jacobian written is the
\* finite difference (s(x+h) - s(x-h)) / (2h) of the s that evaluations
\* write, up to the relative tolerance 2^-12.
C6_JacobianIsSlope ==
    \A i \in Instances :
        (Evaluations(i) /\ Valid(parameters[i]) /\ InUnit(last[i].x)) =>
            \A slope \in SlopesAt[<<members[i].mass, members[i].width, last[i].x,
                                     last[i].atan, last[i].y>>] :
                Near(pool[i].jacobian, slope, Zero)

\* an evaluation on the narrow resonance (125, 0.004) at the lower end x = 0
C6_Witness ==
    \E i \in Instances :
        /\ Evaluations(i) /\ parameters[i] = Config(2) /\ IsZero(last[i].x)
        /\ Positive(pool[i].jacobian)

\* C7: an evaluation with the sample of the first evaluation writes what
\* the first one wrote, whatever was evaluated in between and whatever the
\* slots held.
C7_SameAsFirst ==
    \A i \in Instances :
        (Evaluations(i) /\ last[i].x = first[i].x) =>
            /\ pool[i].s = first[i].s
            /\ pool[i].jacobian = first[i].jacobian

\* the sample of the first evaluation has been evaluated again after an
\* evaluation of another sample
C7_Witness ==
    \E i \in Instances :
        /\ Evaluations(i) /\ varied[i]
        /\ last[i].x = first[i].x
        /\ IsFinite(pool[i].s) /\ pool[i].s # Zero

\* C8: an evaluation is possible in every state, whatever the parameters
\* and the sample, and leaves in both slots floating-point values that
\* work() computes from them (NaN for mass = width = 0).
C8_NeverRejects ==
    \A i \in Instances :
        /\ ENABLED Work(i)
        /\ Evaluations(i) =>
            /\ IsValue(pool[i].s) /\ IsValue(pool[i].jacobian)
            /\ \E r \in Evaluated[<<members[i].mass, members[i].width, last[i].x>>] :
                  pool[i].s = r.s /\ pool[i].jacobian = r.jacobian
            /\ IsZero(parameters[i].mass) /\ IsZero(parameters[i].width) =>
                  pool[i].s = NaN /\ pool[i].jacobian = NaN

\* an evaluation with mass = width = 0 and a sample outside [0, 1) has
\* written NaN into both slots
C8_Witness ==
    \E i \in Instances :
        /\ Evaluations(i) /\ ~Valid(parameters[i]) /\ ~InUnit(last[i].x)
        /\ pool[i].s = NaN /\ pool[i].jacobian = NaN

\* an evaluation of instance i leaves the members, the parameters, the
\* samples and the pool entries of the other instances as they are
Frame(i) ==
    /\ members' = members
    /\ parameters' = parameters
    /\ pool'[i].ps_point = pool[i].ps_point
    /\ \A j \in Instances \ {i} : pool'[j] = pool[j]

\* each evaluated instance holds what it can compute alone from its own
\* members and the sample it read
Alone ==
    \A i \in Instances :
        Evaluations(i) =>
            \E r \in Evaluated[<<ToMember(parameters[i].mass),
                                 ToMember(parameters[i].width), last[i].x>>] :
                pool[i].s = r.s /\ pool[i].jacobian = r.jacobian

\* C9: work() changes only the s and the jacobian of its own instance, and
\* in every interleaving each instance holds the results it computes alone.
C9_Frame == [](Alone) /\ [][\A i \in Instances : Work(i) => Frame(i)]_vars

\* two instances with different parameters have both been evaluated, one of
\* them twice, and hold different results
C9_Witness ==
    /\ \A i \in Instances : Evaluations(i)
    /\ \E i \in Instances : varied[i]
    /\ parameters[1] # parameters[2]
    /\ pool[1].s # pool[2].s

\* C10: the members hold exactly the doubles the configuration supplied.
C10_StoredIsSupplied ==
    \A i \in Instances :
        /\ members[i].mass = parameters[i].mass
        /\ members[i].width = parameters[i].width

====
